---- MODULE Spec2Model ----
(***************************************************************************)
(* A model of the transducer stages of transducist (src/transducers.ts)    *)
(* and of the reducer that drives a chain of them over a source.           *)
(*                                                                         *)
(* Values.  A JavaScript value that flows through a chain is either a      *)
(* number or a reference to an object (an array built by a partition       *)
(* stage, or one of the `{}` marker objects).  Both are records            *)
(* [ref, n]: two values are === exactly when the records are equal.        *)
(* The heap maps an object's id to its contents, so that pushing to a      *)
(* buffer is visible through every reference to it.                        *)
(***************************************************************************)
EXTENDS Integers, Sequences, FiniteSets, TLC

\* ---------------------------------------------------------------- bounds
MaxLen == 3          \* longest source of a chain traversal
MaxChain == 2        \* longest chain of stages
MaxN == 2            \* largest count given to take, drop, partitionAll, takeNth
MaxLen1 == 5         \* longest source of a single-stage traversal
MaxLenT == 2         \* longest source of each of two interleaved traversals
MaxLenF == 2         \* longest source of a traversal that starts at the factories

\* ---------------------------------------------------------------- values
Num(n) == [ref |-> FALSE, n |-> n]
Ref(id) == [ref |-> TRUE, n |-> id]

\* The source elements are numbers drawn from Vals.
Vals == {1, 2}

\* const INITIAL_LAST_KEY = {}: the object allocated when the module loads.
INITIAL_LAST_KEY == Ref(1)

\* The heap right after the module is loaded: only INITIAL_LAST_KEY's object.
InitialHeap == << <<>> >>

\* What a callback reads of its argument: the number, or the array's length.
Weight(heap, v) == IF v.ref THEN Len(heap[v.n]) ELSE v.n

\* ------------------------------------------------------------- callbacks
\* The user's callbacks, drawn from small sets (the tests' n => n < 3,
\* n => n % 2 === 0, n => n + 1, s => s.length, s => s.split("")).
Preds == {"odd", "lt2"}
MapFns == {"inc"}
KeyFns == {"self", "parity"}
FlatFns == {"dup", "evens"}

\* A callback that raises on the elements of weight 2 (a predicate,
\* mapping, key or sequence function whose body throws); on the other
\* elements it answers as lt2, inc, parity, evens do.
Raising == "throwOn2"

Raises(f, heap, v) == f = Raising /\ Weight(heap, v) = 2

ApplyPred(p, heap, v) ==
    IF p = "odd" THEN Weight(heap, v) % 2 = 1 ELSE Weight(heap, v) < 2

ApplyMap(f, heap, v) == Num(Weight(heap, v) + 1)

ApplyKey(f, heap, v) == IF f = "self" THEN v ELSE Num(Weight(heap, v) % 2)

ApplyFlat(f, heap, v) ==
    IF f = "dup" THEN <<v, v>>
    ELSE IF Weight(heap, v) % 2 = 0 THEN <<v>> ELSE <<>>

\* ---------------------------------------------------------- the signal
\* util's reduced / isReduced / unreduced / ensureReduced.
reduced(x) == [reduced |-> TRUE, rvalue |-> x]

isReduced(x) == "reduced" \in DOMAIN x

unreduced(x) == IF isReduced(x) THEN x.rvalue ELSE x

ensureReduced(x) == IF isReduced(x) THEN x ELSE reduced(x)

\* JavaScript's undefined: what reading a property an object does not
\* have comes to.
Undefined == [undefined |-> TRUE]

IsUndefined(x) == "undefined" \in DOMAIN x

\* updateValue without the re-wrapping: the downstream's signal is dropped.
updateValueSwallow(result, newValue) ==
    [result EXCEPT !.value = unreduced(newValue)]

\* function updateValue(result, newValue)
updateValue(result, newValue) ==
    IF isReduced(newValue)
    THEN reduced([result EXCEPT !.value = newValue.rvalue])
    ELSE [result EXCEPT !.value = newValue]

\* ------------------------------------------------------------ the chain
\* A stage descriptor: the transducer's kind and its configuration
\* (n: the count, or interpose's separator; f: the callback).
Stage(kind, n, f) == [kind |-> kind, n |-> n, f |-> f]

\* The fields a transformer instance holds (Drop.i, Take.i,
\* Interpose.isStarted, PartitionAll.buffer); a class without the field
\* leaves it at its default.
NewInst == [i |-> 0, isStarted |-> FALSE, buffer |-> 0]

\* The execution context a call threads through: the instances' fields,
\* the heap and the log of calls.
Ctx(inst, heap, log) == [inst |-> inst, heap |-> heap, log |-> log]

\* An event of the log: a call of stage k's step (op "step"), its return
\* (op "ret") or a call of its result (op "result").  red: the accumulator
\* passed in (step, result) or returned (ret) is a signal wrapper.
Event(op, k, red) == [op |-> op, k |-> k, red |-> red]

Logged(ctx, e) == [ctx EXCEPT !.log = Append(@, e)]

\* A new empty array (or object): its id and the context holding it.
Alloc(ctx) == [ctx EXCEPT !.heap = Append(@, <<>>)]

NewId(ctx) == Len(ctx.heap) + 1

\* array.push(v) on the array with this id.
Push(ctx, id, v) == [ctx EXCEPT !.heap[id] = Append(@, v)]

\* What a step returns: the context after it and the (maybe signaled) result.
Ret(ctx, res) == [ctx |-> ctx, res |-> res]

\* An error was thrown and is unwinding the calls: the throw is the last
\* event of the log, and no call is made after it.
Thrown(lg) == lg # <<>> /\ lg[Len(lg)].op \in {"throw", "raise"}

\* Stage k throws a TypeError: a property of undefined was read, or
\* undefined.push was called.
TypeError(ctx, k, result) == Ret(Logged(ctx, Event("throw", k, FALSE)), result)

\* Stage k's callback raises: the stage's step has no try, the error
\* leaves it.
UserError(ctx, k, result) == Ret(Logged(ctx, Event("raise", k, FALSE)), result)

\* The error that is unwinding the calls.
ErrorOf(lg) == IF lg[Len(lg)].op = "raise" THEN "Error" ELSE "TypeError"

\* result.value, undefined if the object has no such property.
ValueOf(result) == IF "value" \in DOMAIN result THEN result.value ELSE Undefined

\* A stage's state record as the stage's step reads it when it is handed
\* an array that its init did not wrap: the properties the array lacks
\* read as undefined (falsy where tested), and assigning them adds them.
AsDedupeState(result) ==
    IF "last" \in DOMAIN result THEN result
    ELSE [array |-> result.array, last |-> Undefined, value |-> Undefined]

AsDropWhileState(result) ==
    IF "isDoneDropping" \in DOMAIN result THEN result
    ELSE [array |-> result.array, value |-> Undefined, isDoneDropping |-> FALSE]

AsPartitionByState(result) ==
    IF "lastKey" \in DOMAIN result THEN result
    ELSE [array |-> result.array, value |-> Undefined, buffer |-> Undefined,
          lastKey |-> Undefined]

\* A signal wrapper is x itself or lies inside it, under the value fields
\* of the stages' state records.
RECURSIVE HoldsSignal(_)
HoldsSignal(x) ==
    isReduced(x) \/ ("value" \in DOMAIN x /\ HoldsSignal(x.value))

\* The event of stage k's step returning res.  twice: under its one
\* possible wrapper, res holds a signal wrapper again.
Returned(k, res) ==
    [op |-> "ret", k |-> k, red |-> isReduced(res),
     twice |-> HoldsSignal(unreduced(res))]

RECURSIVE Step(_, _, _, _, _)
RECURSIVE Result(_, _, _, _)
RECURSIVE ReduceWithFunction(_, _, _, _, _)


\* ------------------------------------------------------------ the stages
\* Each XStep(ch, k, ctx, result, input) is class X's "@@transducer/step"
\* for the instance at position k of the chain ch; its downstream
\* this.xf is the stage at k + 1 (the terminal transformer past the end).

\* Dedupe["@@transducer/init"]: { last: {}, value: this.xf.init() }
DedupeState(last, value) == [last |-> last, value |-> value]

\* Dedupe's step without result.last = input.
DedupeStepStale(ch, k, ctx, result, input) ==
    IF input # result.last
    THEN LET d == Step(ch, k + 1, ctx, result.value, input)
         IN Ret(d.ctx, updateValue(result, d.res))
    ELSE Ret(ctx, result)

DedupeStep(ch, k, ctx, result, input) ==
    IF input # result.last
    THEN LET r1 == [result EXCEPT !.last = input]
             d == Step(ch, k + 1, ctx, r1.value, input)
         IN Ret(d.ctx, updateValue(r1, d.res))
    ELSE Ret(ctx, result)

DropStep(ch, k, ctx, result, input) ==
    LET i == ctx.inst[k].i
        c1 == [ctx EXCEPT !.inst[k].i = i + 1]
    IN IF i < ch[k].n
       THEN Ret(c1, result)
       ELSE Step(ch, k + 1, c1, result, input)

\* DropWhile["@@transducer/init"]
DropWhileState(value) == [value |-> value, isDoneDropping |-> FALSE]

DropWhileStep(ch, k, ctx, result, input) ==
    IF result.isDoneDropping
    THEN LET d == Step(ch, k + 1, ctx, result.value, input)
         IN Ret(d.ctx, updateValue(result, d.res))
    ELSE IF Raises(ch[k].f, ctx.heap, input)
    THEN UserError(ctx, k, result)
    ELSE IF ApplyPred(ch[k].f, ctx.heap, input)
         THEN Ret(ctx, result)
         ELSE LET r1 == [result EXCEPT !.isDoneDropping = TRUE]
                  d == Step(ch, k + 1, ctx, r1.value, input)
              IN Ret(d.ctx, updateValue(r1, d.res))

\* Filter's step catching what its predicate raises and skipping the
\* element.
FilterStepCatch(ch, k, ctx, result, input) ==
    IF Raises(ch[k].f, ctx.heap, input)
    THEN Ret(ctx, result)
    ELSE IF ApplyPred(ch[k].f, ctx.heap, input)
    THEN Step(ch, k + 1, ctx, result, input)
    ELSE Ret(ctx, result)

FilterStep(ch, k, ctx, result, input) ==
    IF Raises(ch[k].f, ctx.heap, input)
    THEN UserError(ctx, k, result)
    ELSE IF ApplyPred(ch[k].f, ctx.heap, input)
    THEN Step(ch, k + 1, ctx, result, input)
    ELSE Ret(ctx, result)

\* FlatMap's step going on through the remaining elements of f(input)
\* after one of them came back signaled.
FlatMapStepThrough(ch, k, ctx, result, input) ==
    LET items == ApplyFlat(ch[k].f, ctx.heap, input)
    IN IF items = <<>>
       THEN Ret(ctx, result)
       ELSE LET d == Step(ch, k + 1, ctx, result, Head(items))
            IN IF isReduced(d.res) /\ Tail(items) # <<>>
               THEN LET e == ReduceWithFunction(ch, k, d.ctx, Tail(items),
                                                unreduced(d.res))
                    IN Ret(e.ctx, ensureReduced(e.res))
               ELSE ReduceWithFunction(ch, k, d.ctx, Tail(items), d.res)

FlatMapStep(ch, k, ctx, result, input) ==
    IF Raises(ch[k].f, ctx.heap, input)
    THEN UserError(ctx, k, result)
    ELSE ReduceWithFunction(ch, k, ctx, ApplyFlat(ch[k].f, ctx.heap, input),
                            result)

\* Interpose's step passing the element down after a separator that came
\* back signaled.
InterposeStepNoShortCircuit(ch, k, ctx, result, input) ==
    IF ctx.inst[k].isStarted
    THEN LET withSeparator == Step(ch, k + 1, ctx, result, Num(ch[k].n))
             withInput == Step(ch, k + 1, withSeparator.ctx,
                               unreduced(withSeparator.res), input)
         IN IF isReduced(withSeparator.res)
            THEN Ret(withInput.ctx, ensureReduced(withInput.res))
            ELSE withInput
    ELSE Step(ch, k + 1, [ctx EXCEPT !.inst[k].isStarted = TRUE], result, input)

\* Interpose's step handing the separator's result to the element's step
\* without looking at it.
InterposeStepUnchecked(ch, k, ctx, result, input) ==
    IF ctx.inst[k].isStarted
    THEN LET withSeparator == Step(ch, k + 1, ctx, result, Num(ch[k].n))
         IN Step(ch, k + 1, withSeparator.ctx, withSeparator.res, input)
    ELSE Step(ch, k + 1, [ctx EXCEPT !.inst[k].isStarted = TRUE], result, input)

\* Interpose's step putting the separator after the element.
InterposeStepTrailing(ch, k, ctx, result, input) ==
    LET withInput == Step(ch, k + 1, ctx, result, input)
    IN IF isReduced(withInput.res)
       THEN withInput
       ELSE Step(ch, k + 1, withInput.ctx, withInput.res, Num(ch[k].n))

InterposeStep(ch, k, ctx, result, input) ==
    IF ctx.inst[k].isStarted
    THEN LET withSeparator == Step(ch, k + 1, ctx, result, Num(ch[k].n))
         IN IF isReduced(withSeparator.res)
            THEN withSeparator
            ELSE Step(ch, k + 1, withSeparator.ctx, withSeparator.res, input)
    ELSE Step(ch, k + 1, [ctx EXCEPT !.inst[k].isStarted = TRUE], result, input)

MapStep(ch, k, ctx, result, input) ==
    IF Raises(ch[k].f, ctx.heap, input)
    THEN UserError(ctx, k, result)
    ELSE Step(ch, k + 1, ctx, result, ApplyMap(ch[k].f, ctx.heap, input))

\* this.buffer = []: a fresh array becomes the instance's buffer.
FreshBuffer(ctx, k) == [Alloc(ctx) EXCEPT !.inst[k].buffer = NewId(ctx)]

\* PartitionAll's step keeping the flushed array as its buffer.
PartitionAllStepSameBuffer(ch, k, ctx, result, input) ==
    LET b == ctx.inst[k].buffer
        c1 == Push(ctx, b, input)
    IN IF Len(c1.heap[b]) % ch[k].n = 0
       THEN Step(ch, k + 1, c1, result, Ref(b))
       ELSE Ret(c1, result)

PartitionAllStep(ch, k, ctx, result, input) ==
    LET b == ctx.inst[k].buffer
        c1 == Push(ctx, b, input)
    IN IF Len(c1.heap[b]) = ch[k].n
       THEN LET newResult == Step(ch, k + 1, c1, result, Ref(b))
            IN Ret(FreshBuffer(newResult.ctx, k), newResult.res)
       ELSE Ret(c1, result)

\* PartitionAll's result delegating first and flushing the leftover after.
PartitionAllResultLate(ch, k, ctx, result) ==
    LET b == ctx.inst[k].buffer
        r == Result(ch, k + 1, ctx, result)
    IN IF Len(ctx.heap[b]) > 0
       THEN Ret(FreshBuffer(Step(ch, k + 1, r.ctx, result, Ref(b)).ctx, k), r.res)
       ELSE r

\* PartitionAll's result without the flush of the leftover.
PartitionAllResultNoFlush(ch, k, ctx, result) ==
    Result(ch, k + 1, ctx, result)

PartitionAllResult(ch, k, ctx, result) ==
    LET b == ctx.inst[k].buffer
    IN IF Len(ctx.heap[b]) > 0
       THEN LET d == Step(ch, k + 1, ctx, result, Ref(b))
            IN Result(ch, k + 1, FreshBuffer(d.ctx, k), unreduced(d.res))
       ELSE Result(ch, k + 1, ctx, result)

\* PartitionBy["@@transducer/init"]
PartitionByState(value, buffer) ==
    [value |-> value, buffer |-> buffer, lastKey |-> INITIAL_LAST_KEY]

\* unreduced(newResult).buffer = []
ResetBuffer(newResult, id) ==
    IF isReduced(newResult)
    THEN reduced([newResult.rvalue EXCEPT !.buffer = id])
    ELSE [newResult EXCEPT !.buffer = id]

\* PartitionBy's step without the lastKey === INITIAL_LAST_KEY test.
PartitionByStepNoInitial(ch, k, ctx, result, input) ==
    LET key == ApplyKey(ch[k].f, ctx.heap, input)
        r1 == [result EXCEPT !.lastKey = key]
    IN IF result.lastKey = key
       THEN Ret(Push(ctx, r1.buffer, input), r1)
       ELSE LET d == Step(ch, k + 1, ctx, result.value, Ref(result.buffer))
                newResult == ResetBuffer(updateValue(r1, d.res), NewId(d.ctx))
            IN Ret(Push(Alloc(d.ctx), unreduced(newResult).buffer, input),
                   newResult)

PartitionByStep(ch, k, ctx, result, input) ==
    IF Raises(ch[k].f, ctx.heap, input)
    THEN UserError(ctx, k, result)
    ELSE
    LET key == ApplyKey(ch[k].f, ctx.heap, input)
        value == result.value
        buffer == result.buffer
        lastKey == result.lastKey
        r1 == [result EXCEPT !.lastKey = key]
    IN IF lastKey = INITIAL_LAST_KEY \/ lastKey = key
       THEN Ret(Push(ctx, r1.buffer, input), r1)
       ELSE LET d == Step(ch, k + 1, ctx, value, Ref(buffer))
                newResult == ResetBuffer(updateValue(r1, d.res), NewId(d.ctx))
            IN Ret(Push(Alloc(d.ctx), unreduced(newResult).buffer, input),
                   newResult)

\* PartitionBy's result passing its value down without the leftover group.
PartitionByResultNoFlush(ch, k, ctx, result) ==
    Result(ch, k + 1, ctx, result.value)

PartitionByResult(ch, k, ctx, result) ==
    IF Len(ctx.heap[result.buffer]) > 0
    THEN LET d == Step(ch, k + 1, ctx, result.value, Ref(result.buffer))
         IN Result(ch, k + 1, Alloc(d.ctx), unreduced(d.res))
    ELSE Result(ch, k + 1, ctx, result.value)

\* Take's step counting down and signaling on the step after the n-th.
TakeStepLate(ch, k, ctx, result, input) ==
    LET i == ctx.inst[k].i
        c1 == [ctx EXCEPT !.inst[k].i = i + 1]
    IN IF i < ch[k].n
       THEN Step(ch, k + 1, c1, result, input)
       ELSE Ret(c1, reduced(result))

\* Take's step wrapping the last result whether or not it is signaled.
TakeStepRewrap(ch, k, ctx, result, input) ==
    IF ch[k].n <= 0
    THEN Ret(ctx, reduced(result))
    ELSE LET next == Step(ch, k + 1, ctx, result, input)
             i == next.ctx.inst[k].i
             c1 == [next.ctx EXCEPT !.inst[k].i = i + 1]
         IN IF i < ch[k].n - 1
            THEN Ret(c1, next.res)
            ELSE Ret(c1, reduced(next.res))

TakeStep(ch, k, ctx, result, input) ==
    IF ch[k].n <= 0
    THEN Ret(ctx, reduced(result))
    ELSE LET next == Step(ch, k + 1, ctx, result, input)
             i == next.ctx.inst[k].i
             c1 == [next.ctx EXCEPT !.inst[k].i = i + 1]
         IN IF i < ch[k].n - 1
            THEN Ret(c1, next.res)
            ELSE Ret(c1, ensureReduced(next.res))

\* TakeNth["@@transducer/init"]
TakeNthState(value) == [value |-> value, i |-> 0]

\* TakeNth's step counting only the elements it passes.
TakeNthStepCountPassed(ch, k, ctx, result, input) ==
    IF result.i % ch[k].n = 0
    THEN LET d == Step(ch, k + 1, ctx, result.value, input)
         IN Ret(d.ctx, updateValue([result EXCEPT !.i = @ + 1], d.res))
    ELSE Ret(ctx, result)

\* TakeNth's step on an array that has no property i: result.i++ makes
\* it NaN, NaN % n is not 0, and the array is returned as it is.
TakeNthStepNaN(ctx, result) == Ret(ctx, result)

TakeNthStep(ch, k, ctx, result, input) ==
    LET i == result.i
        r1 == [result EXCEPT !.i = i + 1]
    IN IF i % ch[k].n = 0
       THEN LET d == Step(ch, k + 1, ctx, r1.value, input)
            IN Ret(d.ctx, updateValue(r1, d.res))
       ELSE Ret(ctx, r1)

\* TakeWhile's step dropping a failing element without a signal.
TakeWhileStepNoSignal(ch, k, ctx, result, input) ==
    IF ApplyPred(ch[k].f, ctx.heap, input)
    THEN Step(ch, k + 1, ctx, result, input)
    ELSE Ret(ctx, result)

\* TakeWhile's step passing the failing element down before it signals.
TakeWhileStepInclusive(ch, k, ctx, result, input) ==
    LET d == Step(ch, k + 1, ctx, result, input)
    IN IF ApplyPred(ch[k].f, ctx.heap, input)
       THEN d
       ELSE Ret(d.ctx, ensureReduced(d.res))

TakeWhileStep(ch, k, ctx, result, input) ==
    IF Raises(ch[k].f, ctx.heap, input)
    THEN UserError(ctx, k, result)
    ELSE IF ApplyPred(ch[k].f, ctx.heap, input)
    THEN Step(ch, k + 1, ctx, result, input)
    ELSE Ret(ctx, reduced(result))

\* The terminal transformer that collects into an array
\* (init: () => [], step: aPush, result: x => x).
ArrayInit == [array |-> <<>>]

ArrayStep(ctx, result, input) ==
    Ret(ctx, [result EXCEPT !.array = Append(@, input)])

ArrayResult(result) == result.array

\* The driving call returning undefined, in the place of an output.
NoValue == <<Undefined>>


\* ------------------------------------------------- dispatch on the class
\* The kinds whose accumulator is a record wrapped around the downstream's.
Wrapping == {"dedupe", "dropWhile", "takeNth", "partitionBy"}

\* xf["@@transducer/step"](result, input) on the stage at position k,
\* logged as a call and its return.
Step(ch, k, ctx, result, input) ==
    IF Thrown(ctx.log) THEN Ret(ctx, result)
    ELSE
    LET c0 == Logged(ctx, Event("step", k, isReduced(result)))
        kind == IF k > Len(ch) THEN "array" ELSE ch[k].kind
        r == IF \/ IsUndefined(result) /\ kind \in Wrapping \cup {"array"}
                \/ isReduced(result) /\ kind = "array"
             THEN TypeError(c0, k, result)
             ELSE
             CASE kind = "array" -> ArrayStep(c0, result, input)
               [] kind = "dedupe" ->
                      DedupeStep(ch, k, c0, AsDedupeState(result), input)
               [] kind = "drop" -> DropStep(ch, k, c0, result, input)
               [] kind = "dropWhile" ->
                      DropWhileStep(ch, k, c0, AsDropWhileState(result), input)
               [] kind = "filter" -> FilterStep(ch, k, c0, result, input)
               [] kind = "flatMap" -> FlatMapStep(ch, k, c0, result, input)
               [] kind = "interpose" -> InterposeStep(ch, k, c0, result, input)
               [] kind = "map" -> MapStep(ch, k, c0, result, input)
               [] kind = "partitionAll" -> PartitionAllStep(ch, k, c0, result, input)
               [] kind = "partitionBy" ->
                      PartitionByStep(ch, k, c0, AsPartitionByState(result), input)
               [] kind = "take" -> TakeStep(ch, k, c0, result, input)
               [] kind = "takeNth" ->
                      IF "i" \in DOMAIN result
                      THEN TakeNthStep(ch, k, c0, result, input)
                      ELSE TakeNthStepNaN(c0, result)
               [] kind = "takeWhile" -> TakeWhileStep(ch, k, c0, result, input)
    IN IF Thrown(r.ctx.log)
       THEN r
       ELSE Ret(Logged(r.ctx, Returned(k, r.res)), r.res)

\* xf["@@transducer/result"](result) on the stage at position k: the
\* partition stages flush, the other wrapping stages pass result.value
\* down, the rest pass result down.
Result(ch, k, ctx, result) ==
    IF Thrown(ctx.log) THEN Ret(ctx, result)
    ELSE
    LET c0 == Logged(ctx, Event("result", k, isReduced(result)))
        kind == IF k > Len(ch) THEN "array" ELSE ch[k].kind
    IN CASE kind = "array" ->
                Ret(c0, IF IsUndefined(result) THEN NoValue ELSE ArrayResult(result))
         [] kind = "partitionAll" -> PartitionAllResult(ch, k, c0, result)
         [] kind = "partitionBy" ->
                IF "buffer" \in DOMAIN result
                THEN PartitionByResult(ch, k, c0, result)
                ELSE TypeError(c0, k, result)
         [] kind \in Wrapping \ {"partitionBy"} ->
                IF IsUndefined(result)
                THEN TypeError(c0, k, result)
                ELSE Result(ch, k + 1, c0, ValueOf(result))
         [] OTHER -> Result(ch, k + 1, c0, result)

\* core's reduceWithFunction(collection, this.step, result), as FlatMap
\* uses it: step the elements downstream in order and stop at the first
\* signaled result, which is returned still signaled.
ReduceWithFunction(ch, k, ctx, items, result) ==
    IF items = <<>>
    THEN Ret(ctx, result)
    ELSE LET d == Step(ch, k + 1, ctx, result, Head(items))
         IN IF isReduced(d.res)
            THEN d
            ELSE ReduceWithFunction(ch, k, d.ctx, Tail(items), d.res)

\* xf["@@transducer/init"]() on the stage at position k.
RECURSIVE InitAcc(_, _, _)
InitAcc(ch, k, ctx) ==
    LET kind == IF k > Len(ch) THEN "array" ELSE ch[k].kind
    IN CASE kind = "array" -> Ret(ctx, ArrayInit)
         [] kind = "dedupe" ->
                LET d == InitAcc(ch, k + 1, Alloc(ctx))
                IN Ret(d.ctx, DedupeState(Ref(NewId(ctx)), d.res))
         [] kind = "dropWhile" ->
                LET d == InitAcc(ch, k + 1, ctx)
                IN Ret(d.ctx, DropWhileState(d.res))
         [] kind = "takeNth" ->
                LET d == InitAcc(ch, k + 1, ctx)
                IN Ret(d.ctx, TakeNthState(d.res))
         [] kind = "partitionBy" ->
                LET d == InitAcc(ch, k + 1, ctx)
                IN Ret(Alloc(d.ctx), PartitionByState(d.res, NewId(d.ctx)))
         [] OTHER -> InitAcc(ch, k + 1, ctx)

\* Applying the transducers to the terminal transformer, last stage first:
\* each `new X(xf, ...)` sets the instance's fields.
RECURSIVE Construct(_, _, _)
Construct(ch, k, ctx) ==
    IF k = 0 THEN ctx
    ELSE Construct(ch, k - 1,
                   IF ch[k].kind = "partitionAll" THEN FreshBuffer(ctx, k) ELSE ctx)

\* The context and accumulator a traversal of chain ch starts from, when
\* the objects of h exist already.
StartOn(ch, h) ==
    InitAcc(ch, 1,
            Construct(ch, Len(ch), Ctx([j \in 1..Len(ch) |-> NewInst], h, <<>>)))

Start(ch) == StartOn(ch, InitialHeap)

\* -------------------------------------------------------- the catalog
NoF == "none"

Stages ==
    {Stage("dedupe", 0, NoF), Stage("interpose", 0, NoF)}
    \cup {Stage("drop", n, NoF) : n \in 0..MaxN}
    \cup {Stage("take", n, NoF) : n \in -1..MaxN}
    \cup {Stage("partitionAll", n, NoF) : n \in 1..MaxN}
    \cup {Stage("takeNth", n, NoF) : n \in 1..MaxN}
    \cup {Stage(kd, 0, p) : kd \in {"dropWhile", "filter", "takeWhile"}, p \in Preds}
    \cup {Stage("map", 0, f) : f \in MapFns}
    \cup {Stage("partitionBy", 0, f) : f \in KeyFns}
    \cup {Stage("flatMap", 0, f) : f \in FlatFns}

\* The stages that chains of several stages are built from: every kind,
\* with the counts that make it act within a short source.
ChainStages ==
    {Stage("dedupe", 0, NoF), Stage("interpose", 0, NoF),
     Stage("drop", 1, NoF), Stage("takeNth", 2, NoF),
     Stage("dropWhile", 0, "odd"), Stage("filter", 0, "odd"),
     Stage("takeWhile", 0, "lt2"), Stage("map", 0, "inc"),
     Stage("partitionBy", 0, "self"), Stage("flatMap", 0, "dup")}
    \cup {Stage("take", n, NoF) : n \in 0..MaxN}
    \cup {Stage("partitionAll", n, NoF) : n \in 1..MaxN}

\* The stages whose callback raises, and the stages they are chained
\* with.
RaisingStages ==
    {Stage(kd, 0, Raising) :
         kd \in {"dropWhile", "filter", "takeWhile", "map", "partitionBy",
                 "flatMap"}}

ErrorChainStages ==
    RaisingStages
    \cup {Stage("interpose", 0, NoF), Stage("take", 1, NoF),
          Stage("drop", 1, NoF), Stage("partitionAll", 2, NoF),
          Stage("map", 0, "inc"), Stage("dropWhile", 0, "odd")}

SeqsUpTo(S, n) == UNION {[1..m -> S] : m \in 0..n}

\* ---------------------------------------------------------- the driver
\* One turn of the driving loop on a source that has an element: pull it
\* and step it through the chain; a signaled result is unwrapped and
\* stops the loop.
\* A turn that steps the next element and leaves it in the source.
TurnStuck(ch, ctx, result, source) ==
    LET d == Step(ch, 1, ctx, result, Head(source))
    IN [ctx |-> d.ctx, acc |-> unreduced(d.res), src |-> source,
        stop |-> isReduced(d.res) \/ Thrown(d.ctx.log)]

\* A turn that has pulled the next element before the step returns.
TurnAhead(ch, ctx, result, source) ==
    LET d == Step(ch, 1, ctx, result, Head(source))
    IN [ctx |-> d.ctx, acc |-> unreduced(d.res),
        src |-> IF Len(source) > 1 THEN Tail(Tail(source)) ELSE Tail(source),
        stop |-> isReduced(d.res)]

Turn(ch, ctx, result, source) ==
    LET d == Step(ch, 1, ctx, result, Head(source))
    IN [ctx |-> d.ctx, acc |-> unreduced(d.res), src |-> Tail(source),
        stop |-> isReduced(d.res) \/ Thrown(d.ctx.log)]

\* The loop run to its end: until the source is exhausted or a turn stops.
RECURSIVE Loop(_, _, _, _)
Loop(ch, ctx, result, source) ==
    IF source = <<>>
    THEN [ctx |-> ctx, acc |-> result, src |-> source, stop |-> FALSE]
    ELSE LET t == Turn(ch, ctx, result, source)
         IN IF t.stop THEN t ELSE Loop(ch, t.ctx, t.acc, t.src)

\* The whole driving call on a fresh chain: what it returns (out), what
\* it leaves in the source (rest), and the heap and log at its end.
\* (TransduceOn: the source's elements may be objects of h.)
TransduceOn(ch, source, h) ==
    LET s == StartOn(ch, h)
        l == Loop(ch, s.ctx, s.res, source)
        r == Result(ch, 1, l.ctx, l.acc)
    IN [out |-> r.res, rest |-> l.src, heap |-> r.ctx.heap, log |-> r.ctx.log]

Transduce(ch, source) == TransduceOn(ch, source, InitialHeap)

\* ---------------------------------------------------------- factories
\* What a factory call comes to: a transducer made, or an error thrown.
NoError == "none"

Made(st) == [stage |-> st, error |-> NoError]

Throw(message) == [error |-> message]

\* partitionAll(n) accepting a negative size.
partitionAllNoNegativeCheck(n) ==
    IF n = 0
    THEN Throw("Size in partitionAll() cannot be 0")
    ELSE Made(Stage("partitionAll", n, NoF))

partitionAll(n) ==
    IF n = 0
    THEN Throw("Size in partitionAll() cannot be 0")
    ELSE IF n < 0
         THEN Throw("Size in partitionAll() cannot be negative")
         ELSE Made(Stage("partitionAll", n, NoF))

takeNth(n) ==
    IF n = 0
    THEN Throw("Step in takeNth() cannot be 0")
    ELSE IF n < 0
         THEN Throw("Step in takeNth() cannot be negative")
         ELSE Made(Stage("takeNth", n, NoF))

\* The factory of the configuration's kind called with the configuration;
\* the other factories return their transducer whatever they are given.
Factory(c) ==
    CASE c.kind = "partitionAll" -> partitionAll(c.n)
      [] c.kind = "takeNth" -> takeNth(c.n)
      [] OTHER -> Made(c)

\* ------------------------------------------------------- composition
\* A transducer is one stage's factory result (xf => new X(xf, ...)) or
\* the composition of two transducers.  A transformer under construction
\* is the stages built so far, first stage first, with their instances.
Single(st) == [stage |-> st]

Compose(t1, t2) == [left |-> t1, right |-> t2]

Terminal == [ch |-> <<>>, ctx |-> Ctx(<<>>, InitialHeap, <<>>)]

\* new X(xf, ...): the new instance wraps the transformer xf.
NewStage(st, xf) ==
    LET c1 == [xf.ctx EXCEPT !.inst = <<NewInst>> \o @]
    IN [ch |-> <<st>> \o xf.ch,
        ctx |-> IF st.kind = "partitionAll" THEN FreshBuffer(c1, 1) ELSE c1]

\* Applying a transducer to the transformer xf: a composition applies
\* its right part first and its left part to what that built, so the
\* left part's stage is the outermost wrapper.
RECURSIVE ApplyT(_, _)
\* A composition that applies its left part first.
ApplyTLeftFirst(t, xf) ==
    IF "stage" \in DOMAIN t
    THEN NewStage(t.stage, xf)
    ELSE ApplyT(t.right, ApplyT(t.left, xf))

ApplyT(t, xf) ==
    IF "stage" \in DOMAIN t
    THEN NewStage(t.stage, xf)
    ELSE ApplyT(t.left, ApplyT(t.right, xf))

\* The whole driving call with transducer t over the source.
TransduceWith(t, source) ==
    LET b == ApplyT(t, Terminal)
        s == InitAcc(b.ch, 1, b.ctx)
        l == Loop(b.ch, s.ctx, s.res, source)
        r == Result(b.ch, 1, l.ctx, l.acc)
    IN [out |-> r.res, rest |-> l.src, heap |-> r.ctx.heap, log |-> r.ctx.log]

VARIABLES
    chain,    \* the stages, in declaration order
    input,    \* the whole source, as it was before the traversal
    src,      \* the elements the source has not yielded yet
    inst,     \* the instances' fields
    heap,     \* the arrays and marker objects
    log,      \* the calls made so far
    acc,      \* the driver's accumulator
    pc,       \* "config" (the factories are being called), "run",
              \* "finish" (the loop is left), "done" or "thrown"
    out,      \* what the driving call returned
    req,      \* the configurations the caller hands to the factories
    seed,     \* the initial accumulator the caller supplied, if any
    thrown,   \* the error thrown to the caller, NoError if none
    twin      \* a second traversal, of a second instance of the chain made
              \* by the same transducers on the same heap: its input, src,
              \* inst, log, acc, pc and out; NoTwin if there is none

vars ==
    <<chain, input, src, inst, heap, log, acc, pc, out, req, seed, thrown, twin>>

NoTwin == [pc |-> "none"]

NoSeed == [given |-> FALSE]

Nums(xs) == [j \in 1..Len(xs) |-> Num(xs[j])]

Begin(ch, xs) ==
    LET s == Start(ch)
    IN /\ chain = ch
       /\ input = Nums(xs)
       /\ src = Nums(xs)
       /\ inst = s.ctx.inst
       /\ heap = s.ctx.heap
       /\ log = s.ctx.log
       /\ acc = s.res
       /\ pc = "run"
       /\ out = <<>>
       /\ req = ch
       /\ seed = NoSeed
       /\ thrown = NoError
       /\ twin = NoTwin

Init ==
    \E ch \in SeqsUpTo(ChainStages, MaxChain), xs \in SeqsUpTo(Vals, MaxLen) :
        Begin(ch, xs)

\* A single stage applied directly to a longer source.
Init1 ==
    \E st \in Stages, xs \in SeqsUpTo(Vals, MaxLen1) : Begin(<<st>>, xs)

Pull ==
    /\ pc = "run"
    /\ src # <<>>
    /\ LET t == Turn(chain, Ctx(inst, heap, log), acc, src)
       IN /\ src' = t.src
          /\ inst' = t.ctx.inst
          /\ heap' = t.ctx.heap
          /\ log' = t.ctx.log
          /\ acc' = IF Thrown(t.ctx.log) THEN acc ELSE t.acc
          /\ pc' = IF Thrown(t.ctx.log) THEN "thrown"
                   ELSE IF t.stop THEN "finish" ELSE "run"
          /\ thrown' = IF Thrown(t.ctx.log) THEN ErrorOf(t.ctx.log) ELSE thrown
    /\ UNCHANGED <<chain, input, out, req, seed, twin>>

\* The source has no element left: the loop ends.
Exhaust ==
    /\ pc = "run"
    /\ src = <<>>
    /\ pc' = "finish"
    /\ UNCHANGED <<chain, input, src, inst, heap, log, acc, out, req, seed, thrown,
                   twin>>

\* After the loop: the chain's result on the accumulator is returned.
Finish ==
    /\ pc = "finish"
    /\ LET d == Result(chain, 1, Ctx(inst, heap, log), acc)
       IN /\ inst' = d.ctx.inst
          /\ heap' = d.ctx.heap
          /\ log' = d.ctx.log
          /\ out' = IF Thrown(d.ctx.log) THEN out ELSE d.res
          /\ pc' = IF Thrown(d.ctx.log) THEN "thrown" ELSE "done"
          /\ thrown' = IF Thrown(d.ctx.log) THEN ErrorOf(d.ctx.log) ELSE thrown
    /\ UNCHANGED <<chain, input, src, acc, req, seed, twin>>

Next == Pull \/ Exhaust \/ Finish

Spec == Init /\ [][Next]_vars

Spec1 == Init1 /\ [][Next]_vars

\* Chains of exactly three stages.
Init3 ==
    \E ch \in [1..3 -> ChainStages], xs \in SeqsUpTo(Vals, MaxLen) :
        Begin(ch, xs)

Spec3 == Init3 /\ [][Next]_vars

\* The configurations a caller may hand to the factories: those of the
\* chains' catalog and sizes and steps that are not positive.
Configs ==
    ChainStages
    \cup {Stage(kd, n, NoF) : kd \in {"partitionAll", "takeNth"}, n \in -1..MaxN}

\* The caller is about to call the factories, in declaration order, and
\* then to drive the chain they made over the source.
InitF ==
    \E cs \in SeqsUpTo(Configs, MaxChain), xs \in SeqsUpTo(Vals, MaxLenF) :
        /\ req = cs
        /\ chain = <<>>
        /\ input = Nums(xs)
        /\ src = Nums(xs)
        /\ inst = <<>>
        /\ heap = InitialHeap
        /\ log = <<>>
        /\ acc = ArrayInit
        /\ pc = "config"
        /\ out = <<>>
        /\ seed = NoSeed
        /\ thrown = NoError
        /\ twin = NoTwin

\* The next factory is called: it returns a transducer or throws.
Configure ==
    /\ pc = "config"
    /\ Len(chain) < Len(req)
    /\ LET t == Factory(req[Len(chain) + 1])
       IN IF t.error = NoError
          THEN /\ chain' = Append(chain, t.stage)
               /\ UNCHANGED <<pc, thrown>>
          ELSE /\ thrown' = t.error
               /\ pc' = "thrown"
               /\ UNCHANGED chain
    /\ UNCHANGED <<input, src, inst, heap, log, acc, out, req, seed, twin>>

\* Every factory has returned: the driving call builds the instances
\* and calls the chain's initialize.
Build ==
    /\ pc = "config"
    /\ Len(chain) = Len(req)
    /\ LET s == Start(chain)
       IN /\ inst' = s.ctx.inst
          /\ heap' = s.ctx.heap
          /\ log' = s.ctx.log
          /\ acc' = s.res
    /\ pc' = "run"
    /\ UNCHANGED <<chain, input, src, out, req, seed, thrown, twin>>

NextF == Configure \/ Build \/ Pull \/ Exhaust \/ Finish

SpecF == InitF /\ [][NextF]_vars

\* The initial accumulators a caller supplies to the array transformer.
Seeds == {<<>>, <<1>>}

Seeded(v) == [given |-> TRUE, array |-> v]

\* A traversal of a single stage with a caller-supplied initial
\* accumulator: the chain is built, its initialize is not called, and
\* the loop starts from the supplied value.
InitV ==
    \E st \in Stages, xs \in SeqsUpTo(Vals, MaxLen), v \in Seeds :
        LET c == Construct(<<st>>, 1, Ctx(<<NewInst>>, InitialHeap, <<>>))
        IN /\ chain = <<st>>
           /\ input = Nums(xs)
           /\ src = Nums(xs)
           /\ inst = c.inst
           /\ heap = c.heap
           /\ log = c.log
           /\ acc = [array |-> Nums(v)]
           /\ pc = "run"
           /\ out = <<>>
           /\ req = <<st>>
           /\ seed = Seeded(Nums(v))
           /\ thrown = NoError
           /\ twin = NoTwin

SpecV == InitV /\ [][Next]_vars

\* The transducers applied a second time, after a first application
\* that left `first`, but handing out the first application's instances
\* again.
AgainSameInstances(ch, first) ==
    [StartOn(ch, first.ctx.heap) EXCEPT !.ctx.inst = first.ctx.inst]

\* The transducers applied a second time, after a first application
\* that left `first`: each xf => new X(xf, ...) makes a new instance, in
\* the same heap.
Again(ch, first) == StartOn(ch, first.ctx.heap)

\* Two traversals of one stage: the transducer is applied twice, and
\* each instance is driven over a source of its own.
InitT ==
    \E st \in Stages, xs \in SeqsUpTo(Vals, MaxLenT), ys \in SeqsUpTo(Vals, MaxLenT) :
        LET a == Start(<<st>>)
            b == Again(<<st>>, a)
        IN /\ chain = <<st>>
           /\ input = Nums(xs)
           /\ src = Nums(xs)
           /\ inst = a.ctx.inst
           /\ heap = b.ctx.heap
           /\ log = a.ctx.log
           /\ acc = a.res
           /\ pc = "run"
           /\ out = <<>>
           /\ req = <<st>>
           /\ seed = NoSeed
           /\ thrown = NoError
           /\ twin = [input |-> Nums(ys), src |-> Nums(ys), inst |-> b.ctx.inst,
                      log |-> b.ctx.log, acc |-> b.res, pc |-> "run",
                      out |-> <<>>]

\* The second traversal's turn of the loop, its leaving the loop and its
\* finish: the driver's steps, on the second instance and its source.
PullTwin ==
    /\ twin.pc = "run"
    /\ twin.src # <<>>
    /\ LET t == Turn(chain, Ctx(twin.inst, heap, twin.log), twin.acc, twin.src)
       IN /\ heap' = t.ctx.heap
          /\ twin' = [twin EXCEPT
                          !.src = t.src,
                          !.inst = t.ctx.inst,
                          !.log = t.ctx.log,
                          !.acc = IF Thrown(t.ctx.log) THEN @ ELSE t.acc,
                          !.pc = IF Thrown(t.ctx.log) THEN "thrown"
                                 ELSE IF t.stop THEN "finish" ELSE "run"]
    /\ UNCHANGED <<chain, input, src, inst, log, acc, pc, out, req, seed, thrown>>

ExhaustTwin ==
    /\ twin.pc = "run"
    /\ twin.src = <<>>
    /\ twin' = [twin EXCEPT !.pc = "finish"]
    /\ UNCHANGED <<chain, input, src, inst, heap, log, acc, pc, out, req, seed,
                   thrown>>

FinishTwin ==
    /\ twin.pc = "finish"
    /\ LET d == Result(chain, 1, Ctx(twin.inst, heap, twin.log), twin.acc)
       IN /\ heap' = d.ctx.heap
          /\ twin' = [twin EXCEPT
                          !.inst = d.ctx.inst,
                          !.log = d.ctx.log,
                          !.out = IF Thrown(d.ctx.log) THEN @ ELSE d.res,
                          !.pc = IF Thrown(d.ctx.log) THEN "thrown" ELSE "done"]
    /\ UNCHANGED <<chain, input, src, inst, log, acc, pc, out, req, seed, thrown>>

NextT == Pull \/ Exhaust \/ Finish \/ PullTwin \/ ExhaustTwin \/ FinishTwin

SpecT == InitT /\ [][NextT]_vars

\* Traversals of chains with callbacks that raise.
InitE ==
    \E ch \in SeqsUpTo(ErrorChainStages, MaxChain), xs \in SeqsUpTo(Vals, MaxLen) :
        Begin(ch, xs)

SpecE == InitE /\ [][Next]_vars

InitL ==
    \E ch \in SeqsUpTo(ChainStages, MaxChain), xs \in SeqsUpTo(Vals, MaxLenF) :
        Begin(ch, xs)

\* The driving call is one synchronous loop: while it has neither
\* returned nor thrown it goes on, to the next element of the source or
\* to the next position of the call.
Advance ==
    /\ pc \in {"run", "finish"}
    /\ \E p \in {"run", "finish", "done", "thrown"},
          s \in {src} \cup (IF src = <<>> THEN {} ELSE {Tail(src)}) :
           /\ <<p, s>> # <<pc, src>>
           /\ pc' = p
           /\ src' = s

SpecL == InitL /\ [][Next]_vars /\ WF_<<pc, src>>(Advance)

\* ------------------------------------------------------------ readings
\* The contents of a value: a number as itself, an array as the sequence
\* of its elements' contents.
RECURSIVE Contents(_, _)
Contents(h, v) ==
    IF v.ref THEN [j \in 1..Len(h[v.n]) |-> Contents(h, h[v.n][j])] ELSE v.n

Shown(h, vs) == [j \in 1..Len(vs) |-> Contents(h, vs[j])]

\* The number of elements the driver has pulled from the source.
Pulled == Len(input) - Len(src)

Is(e, op, k) == e.op = op /\ e.k = k

Count(lg, op, k) == Cardinality({p \in DOMAIN lg : Is(lg[p], op, k)})

\* Stage k's step has returned a signaled result at place p of the log.
Signaled(lg, p, k) == Is(lg[p], "ret", k) /\ lg[p].red

Min(a, b) == IF a < b THEN a ELSE b

N == Len(chain)


\* At place p of the log, stage k is inside its step: the latest of its
\* step calls and returns before p is a call.
InStep(lg, p, k) ==
    \E q \in 1..(p - 1) :
        /\ Is(lg[q], "step", k)
        /\ \A r \in (q + 1)..(p - 1) : ~Is(lg[r], "ret", k)

\* The first return of stage k's step after place p is signaled.
ReturnsSignaled(lg, p, k) ==
    \E q \in (p + 1)..Len(lg) :
        /\ Signaled(lg, q, k)
        /\ \A r \in (p + 1)..(q - 1) : ~Is(lg[r], "ret", k)

\* ------------------------------------------------------------- claims

\* C1: one run of the driver calls the chain's finish exactly once, after
\* the last step call, whether the source was exhausted or a step
\* signaled; this holds of every stage of the chain and of the terminal
\* transformer: its result is not called before the loop is left, is
\* called exactly once by the end, and no step into it follows.
C1_FinishOnce ==
    \A k \in 1..(N + 1) :
        /\ Count(log, "result", k) = (IF pc = "done" THEN 1 ELSE 0)
        /\ \A p, q \in DOMAIN log :
               (p < q /\ Is(log[p], "result", k)) => ~Is(log[q], "step", k)

\* A run that a signal ended, through a partition stage whose finish
\* flushed a leftover group downstream.
C1_Witness ==
    /\ pc = "done"
    /\ N = 2
    /\ chain[2].kind = "partitionAll"
    /\ \E p \in DOMAIN log : Signaled(log, p, 1)
    /\ \E p, q \in DOMAIN log : p < q /\ Is(log[p], "result", 2) /\ Is(log[q], "step", 3)

\* C2: the driver never pulls ahead: every element pulled is stepped
\* before the next pull, so the pulls are as many as the top-level step
\* calls and returns; a signaled top-level return is the last one and
\* ends the loop; the source holds exactly the elements after the pulled ones.
C2_NoPullAhead ==
    /\ Pulled = Count(log, "step", 1)
    /\ Pulled = Count(log, "ret", 1)
    /\ src = SubSeq(input, Pulled + 1, Len(input))
    /\ \A p \in DOMAIN log :
           Signaled(log, p, 1) =>
               /\ pc # "run"
               /\ \A q \in (p + 1)..Len(log) : ~Is(log[q], "step", 1)
    /\ (pc # "run" /\ src # <<>>) => \E p \in DOMAIN log : Signaled(log, p, 1)

\* A finished run that a signal stopped with elements left in the source.
C2_Witness ==
    /\ pc = "done"
    /\ src # <<>>
    /\ Pulled >= 2
    /\ \E p \in DOMAIN log : Signaled(log, p, 1)

\* The place in the log of the j-th return of stage k's step.
IsNthRet(lg, p, k, j) ==
    /\ Is(lg[p], "ret", k)
    /\ Cardinality({q \in 1..p : Is(lg[q], "ret", k)}) = j

\* C3: take(n), n >= 1, applied directly to a source of m elements pulls
\* exactly min(n, m) elements, outputs the first min(n, m) in order,
\* signals on the step that passes the n-th element and on no other, and
\* leaves the (n+1)-th element as the next one of the source.
C3_TakeExact ==
    (N = 1 /\ chain[1].kind = "take" /\ chain[1].n >= 1) =>
        LET n == chain[1].n
            m == Len(input)
        IN /\ Pulled <= Min(n, m)
           /\ acc.array = SubSeq(input, 1, Pulled)
           /\ \A p \in DOMAIN log : Signaled(log, p, 1) <=> IsNthRet(log, p, 1, n)
           /\ pc # "run" =>
                  /\ Pulled = Min(n, m)
                  /\ src = SubSeq(input, Min(n, m) + 1, m)
           /\ pc = "done" => out = SubSeq(input, 1, Min(n, m))

\* take(2) has finished over a source of more than two elements, whose
\* third element is the next the source yields.
C3_Witness ==
    /\ chain = <<Stage("take", 2, NoF)>>
    /\ pc = "done"
    /\ Len(input) > 2
    /\ Head(src) = input[3]
    /\ out = SubSeq(input, 1, 2)

\* C4: take(n) with n <= 0 pulls no element from the source and
\* produces empty output.
C4_TakeZeroPullsNothing ==
    (N = 1 /\ chain[1].kind = "take" /\ chain[1].n <= 0) =>
        /\ Pulled = 0
        /\ pc = "done" => out = <<>>

\* C5: a signal is never swallowed: when a call that a stage's step makes
\* into its downstream step returns a signaled result, that step of the
\* stage returns a signaled result too.
C5_SignalPropagates ==
    \A k \in 1..N : \A p \in DOMAIN log :
        (Signaled(log, p, k + 1) /\ InStep(log, p, k)) =>
            ReturnsSignaled(log, p, k)

\* A signal raised two stages down, under a partitionBy's step, has
\* reached the driver.
C5_Witness ==
    /\ N = 2
    /\ chain[1].kind = "partitionBy"
    /\ \E p \in DOMAIN log :
           /\ Signaled(log, p, 2)
           /\ InStep(log, p, 1)
           /\ ReturnsSignaled(log, p, 1)
    /\ pc = "finish"

\* C6: once a stage's step has returned a signaled result, no further
\* step call is made into that stage, neither from the enclosing stage's
\* step nor from its finish-time flush.
C6_NoStepAfterSignal ==
    \A k \in 1..(N + 1) : \A p, q \in DOMAIN log :
        (p < q /\ Signaled(log, p, k)) => ~Is(log[q], "step", k)

\* Every step call into a stage that had signaled comes from the
\* finish-time flush of a partitionBy just above it.
C6_OnlyPartitionByFlush ==
    \A k \in 1..(N + 1) : \A p, q \in DOMAIN log :
        (p < q /\ Signaled(log, p, k) /\ Is(log[q], "step", k)) =>
            /\ k >= 2
            /\ chain[k - 1].kind = "partitionBy"
            /\ \E r \in p..q : Is(log[r], "result", k - 1)


\* The groups, in order, laid end to end.
RECURSIVE Concat(_)
Concat(gs) == IF gs = <<>> THEN <<>> ELSE Head(gs) \o Concat(Tail(gs))

\* The elements of xs at the places in S, in order.
RECURSIVE SelectAt(_, _, _)
SelectAt(xs, S, j) ==
    IF j = 0 THEN <<>>
    ELSE SelectAt(xs, S, j - 1) \o (IF j \in S THEN <<xs[j]>> ELSE <<>>)

CeilDiv(m, n) == (m + n - 1) \div n

\* The elements pulled so far.
Consumed == SubSeq(input, 1, Pulled)

\* C7: partitionAll(n), n >= 1, over m elements run to exhaustion emits
\* exactly ceil(m/n) groups, each of size n except possibly the last,
\* which is non-empty and of size <= n; the groups laid end to end are
\* the input; an empty input gives no group.
C7_PartitionAllGroups ==
    (N = 1 /\ chain[1].kind = "partitionAll" /\ pc = "done") =>
        LET n == chain[1].n
            m == Len(input)
            groups == Shown(heap, out)
        IN /\ Len(groups) = CeilDiv(m, n)
           /\ \A g \in 1..(Len(groups) - 1) : Len(groups[g]) = n
           /\ groups # <<>> =>
                  /\ Len(groups[Len(groups)]) >= 1
                  /\ Len(groups[Len(groups)]) <= n
           /\ Concat(groups) = Shown(heap, input)
           /\ m = 0 => groups = <<>>

\* partitionAll(2) over five elements has given two pairs and a last
\* group of one.
C7_Witness ==
    /\ chain = <<Stage("partitionAll", 2, NoF)>>
    /\ pc = "done"
    /\ Len(input) = 5
    /\ Len(out) = 3
    /\ Len(heap[out[3].n]) = 1

\* The groups partitionBy has emitted downstream so far, followed by the
\* pending buffer when it holds something.
GroupsSoFar ==
    IF pc = "done" THEN Shown(heap, out)
    ELSE Shown(heap, acc.value.array)
         \o (IF heap[acc.buffer] = <<>> THEN <<>>
             ELSE <<Shown(heap, heap[acc.buffer])>>)

\* C8: partitionBy(f) emits exactly the maximal runs of consecutive
\* elements with equal key, in input order: the groups laid end to end
\* are the input, no group is empty, the keys within a group are equal
\* and the keys of neighbouring groups differ; a key change flushes the
\* previous group in the step that buffers the new element, the first
\* element triggers no flush, and the last run is flushed at finish.
C8_PartitionByRuns ==
    (N = 1 /\ chain[1].kind = "partitionBy") =>
        LET f == chain[1].f
            keyOf(x) == ApplyKey(f, heap, Num(x))
            gs == GroupsSoFar
            flushes == Count(log, "step", 2)
        IN /\ Concat(gs) = Shown(heap, Consumed)
           /\ \A g \in DOMAIN gs :
                  /\ gs[g] # <<>>
                  /\ \A a, b \in DOMAIN gs[g] : keyOf(gs[g][a]) = keyOf(gs[g][b])
           /\ \A g \in 1..(Len(gs) - 1) :
                  keyOf(gs[g][Len(gs[g])]) # keyOf(gs[g + 1][1])
           /\ pc # "done" => flushes = (IF gs = <<>> THEN 0 ELSE Len(gs) - 1)
           /\ pc = "done" =>
                  /\ flushes = Len(gs)
                  /\ Consumed = input
                  /\ gs # <<>> =>
                         \E p, q \in DOMAIN log :
                             p < q /\ Is(log[p], "result", 1) /\ Is(log[q], "step", 2)

\* partitionBy has grouped a source whose keys go a, a, b into two runs.
C8_Witness ==
    /\ N = 1
    /\ chain[1].kind = "partitionBy"
    /\ pc = "done"
    /\ Len(input) >= 3
    /\ input[1] = input[2]
    /\ input[2] # input[3]
    /\ Len(heap[out[1].n]) = 2
    /\ Len(out) >= 2

\* The places of xs whose element differs from the one just before it.
Changes(xs) == {j \in DOMAIN xs : j = 1 \/ xs[j] # xs[j - 1]}

\* C9: dedupe() outputs exactly the elements that differ from their
\* immediately preceding input element: the first always passes, runs of
\* equal elements collapse to one, non-consecutive duplicates stay.
C9_DedupeConsecutive ==
    (N = 1 /\ chain[1].kind = "dedupe") =>
        /\ pc # "done" =>
               acc.value.array = SelectAt(Consumed, Changes(Consumed), Pulled)
        /\ pc = "done" =>
               out = SelectAt(input, Changes(input), Len(input))

\* dedupe has collapsed a run and kept a non-consecutive duplicate.
C9_Witness ==
    /\ chain = <<Stage("dedupe", 0, NoF)>>
    /\ pc = "done"
    /\ Shown(heap, input) = <<1, 2, 2, 1>>
    /\ Shown(heap, out) = <<1, 2, 1>>

\* The first place of xs whose element fails p, or one past the end.
Boundary(p, xs) ==
    LET failing == {j \in DOMAIN xs : ~ApplyPred(p, InitialHeap, xs[j])}
    IN IF failing = {} THEN Len(xs) + 1
       ELSE CHOOSE j \in failing : \A i \in failing : j <= i

\* C10: takeWhile(p) and dropWhile(p) split the input at the same
\* boundary: takeWhile(p) gives the longest prefix whose elements all
\* satisfy p, dropWhile(p) gives the rest from the first failing element
\* on, and the first followed by the second is the input.
C10_SplitAtBoundary ==
    (N = 1 /\ chain[1].kind \in {"takeWhile", "dropWhile"} /\ pc = "done") =>
        LET p == chain[1].f
            b == Boundary(p, input)
            taken == IF chain[1].kind = "takeWhile" THEN out
                     ELSE Transduce(<<Stage("takeWhile", 0, p)>>, input).out
            dropped == IF chain[1].kind = "dropWhile" THEN out
                       ELSE Transduce(<<Stage("dropWhile", 0, p)>>, input).out
        IN /\ taken = SubSeq(input, 1, b - 1)
           /\ dropped = SubSeq(input, b, Len(input))
           /\ taken \o dropped = input

\* takeWhile has stopped inside the source, at an element after which one
\* satisfying p comes again.
C10_Witness ==
    /\ N = 1
    /\ chain[1].kind = "takeWhile"
    /\ pc = "done"
    /\ out # <<>>
    /\ Len(out) + 2 <= Len(input)
    /\ ApplyPred(chain[1].f, heap, input[Len(out) + 2])

\* The elements xs with the separator s between each two of them.
Interposed(xs, s) ==
    [j \in 1..(IF xs = <<>> THEN 0 ELSE 2 * Len(xs) - 1) |->
        IF j % 2 = 1 THEN xs[(j + 1) \div 2] ELSE s]

\* C11: interpose(s) applied directly to a source x1..xm outputs
\* x1, s, x2, s, ..., xm: after each pull the output so far is the pulled
\* elements with the separator between each two, so the separator comes
\* before every element but the first and never after the last; the run
\* to exhaustion outputs 2m-1 elements for m >= 1 and no separator for an
\* empty or single-element source.
C11_InterposeBetween ==
    (N = 1 /\ chain[1].kind = "interpose") =>
        LET s == Num(chain[1].n)
            m == Len(input)
        IN /\ acc.array = Interposed(SubSeq(input, 1, Pulled), s)
           /\ Count(log, "step", 2) = Len(acc.array)
           /\ pc = "done" =>
                  /\ out = Interposed(input, s)
                  /\ Len(out) = (IF m = 0 THEN 0 ELSE 2 * m - 1)
                  /\ m <= 1 => out = input
                  /\ m >= 1 => out[1] = input[1] /\ out[Len(out)] = input[m]

\* interpose(0) has run over three elements or more to exhaustion and
\* put out the elements with separators between them.
C11_Witness ==
    /\ N = 1
    /\ chain[1].kind = "interpose"
    /\ pc = "done"
    /\ Len(input) >= 3
    /\ Len(out) = 2 * Len(input) - 1
    /\ out[2] = Num(0)
    /\ out[3] = input[2]

\* The places 0, n, 2n, ... below m, counted from 1.
NthPlaces(n, m) == {j \in 1..m : (j - 1) % n = 0}

\* C15: takeNth(n), n >= 1, applied directly to a source passes exactly
\* the elements at the 0-based places 0, n, 2n, ..., in order; its
\* counter advances on every element it receives, passed or not, so it
\* equals the number of elements pulled; the first element always passes.
C15_TakeNthPlaces ==
    (N = 1 /\ chain[1].kind = "takeNth") =>
        LET n == chain[1].n
        IN /\ pc # "done" =>
                  /\ acc.i = Pulled
                  /\ acc.value.array = SelectAt(input, NthPlaces(n, Pulled), Pulled)
                  /\ Count(log, "step", 2) = Cardinality(NthPlaces(n, Pulled))
                  /\ Pulled >= 1 => acc.value.array[1] = input[1]
           /\ pc = "done" =>
                  /\ Pulled = Len(input)
                  /\ out = SelectAt(input, NthPlaces(n, Len(input)), Len(input))

\* takeNth(2) has run over five elements and put out the first, third
\* and fifth.
C15_Witness ==
    /\ chain = <<Stage("takeNth", 2, NoF)>>
    /\ pc = "done"
    /\ Len(input) = 5
    /\ out = <<input[1], input[3], input[5]>>

\* f applied to each of the elements xs, the results laid end to end.
FlatMapped(f, h, xs) == Concat([j \in 1..Len(xs) |-> ApplyFlat(f, h, xs[j])])

C19_FlushAfterUpstreamSignal ==
    (N = 2 /\ chain[2].kind \in {"partitionAll", "partitionBy"}
         /\ pc = "done" /\ \E p \in DOMAIN log : Signaled(log, p, 1)) =>
        LET forwarded == Transduce(<<chain[1]>>, input).out
            groups == Shown(heap, out)
        IN /\ Concat(groups) = Shown(heap, forwarded)
           /\ Count(log, "step", 2) = Len(forwarded)
           /\ \A j \in DOMAIN groups : groups[j] # <<>>
           /\ \A p, q \in DOMAIN log :
                  (p < q /\ Is(log[p], "result", 3)) => ~Is(log[q], "step", 3)
           /\ \A p \in DOMAIN log :
                  Is(log[p], "result", 2) =>
                      Cardinality({q \in (p + 1)..Len(log) :
                                       Is(log[q], "step", 3)}) <= 1

\* take(2) then a partition stage has finished over a longer source:
\* the step that signaled left an element in the buffer, and the finish
\* put it out as the last group, after the stage's result was called.
C19_Witness ==
    /\ N = 2
    /\ chain[1] = Stage("take", 2, NoF)
    /\ chain[2].kind \in {"partitionAll", "partitionBy"}
    /\ pc = "done"
    /\ src # <<>>
    /\ Len(out) = 2
    /\ Concat(Shown(heap, out)) = Shown(heap, SubSeq(input, 1, 2))
    /\ \E p, q \in DOMAIN log :
           p < q /\ Is(log[p], "result", 2) /\ Is(log[q], "step", 3)

\* C20: a signaled result is never signaled a second time: what any
\* stage's step returns is an accumulator holding no signal wrapper, or
\* one wrapper around such an accumulator (the stages that re-wrap unwrap
\* the downstream's payload first); so is the driver's accumulator once
\* unwrapped, and ensureReduced leaves a signaled value as it is.
C20_SignaledOnce ==
    /\ \A p \in DOMAIN log : log[p].op = "ret" => ~log[p].twice
    /\ ~HoldsSignal(acc)
    /\ ensureReduced(reduced(acc)) = reduced(acc)
    /\ unreduced(ensureReduced(ensureReduced(acc))) = acc

\* A stage that re-wraps or ensures the signal stands over a take that
\* signaled: both returned signaled on the same step.
C20_Witness ==
    /\ N = 2
    /\ chain[1].kind \in {"take", "dedupe", "partitionBy"}
    /\ chain[2].kind = "take"
    /\ pc = "finish"
    /\ \E p \in DOMAIN log :
           /\ Signaled(log, p, 2)
           /\ p < Len(log)
           /\ Signaled(log, p + 1, 1)
           /\ ~log[p + 1].twice

\* The output of chain ch over the source, as contents.
OutputOf(ch, source) ==
    LET r == Transduce(ch, source) IN Shown(r.heap, r.out)

\* The output of stage s2 driven over the output of stage s1 over the
\* source, as contents.
OneAfterTheOther(s1, s2, source) ==
    LET first == Transduce(<<s1>>, source)
        second == TransduceOn(<<s2>>, first.out, first.heap)
    IN Shown(second.heap, second.out)

\* C12: the stages apply in declaration order: the output of the chain
\* [s1, s2] is the output of s2 applied to the output of s1.
C12_DeclarationOrder ==
    (N = 2 /\ pc = "done") =>
        Shown(heap, out) = OneAfterTheOther(chain[1], chain[2], input)

\* C12 holds of every two-stage chain but a partitionBy over a stage
\* that signaled, whose finish flushes one group more (C6).
C12_OrderButPartitionByFlush ==
    (N = 2 /\ pc = "done"
         /\ ~(chain[1].kind = "partitionBy"
                  /\ \E p \in DOMAIN log : Signaled(log, p, 2))) =>
        Shown(heap, out) = OneAfterTheOther(chain[1], chain[2], input)

\* In declaration order the two orders of map(+1) and filter(odd) differ.
C12_OrdersDiffer ==
    /\ chain = <<Stage("map", 0, "inc"), Stage("filter", 0, "odd")>>
    /\ pc = "done"
    /\ Len(input) >= 2
    /\ Shown(heap, out) = OneAfterTheOther(chain[1], chain[2], input)
    /\ Shown(heap, out) # OutputOf(<<chain[2], chain[1]>>, input)

\* C18: for every upstream stage P, every n >= 1 and every source, the
\* output of P followed by take(n) is the first min(n, k) elements of P's
\* own output of k elements, and take(n) forwards at most n elements
\* downstream in the traversal, also when P is a partition stage whose
\* finish may flush a leftover group.
C18_TakeOfUpstream ==
    (N = 2 /\ chain[2].kind = "take" /\ chain[2].n >= 1) =>
        /\ Count(log, "step", 3) <= chain[2].n
        /\ pc = "done" =>
               LET whole == OutputOf(<<chain[1]>>, input)
               IN Shown(heap, out)
                      = SubSeq(whole, 1, Min(chain[2].n, Len(whole)))

\* C18 holds of every upstream stage but partitionBy.
C18_TakeButPartitionByFlush ==
    (N = 2 /\ chain[2].kind = "take" /\ chain[2].n >= 1
         /\ chain[1].kind # "partitionBy") =>
        /\ Count(log, "step", 3) <= chain[2].n
        /\ pc = "done" =>
               LET whole == OutputOf(<<chain[1]>>, input)
               IN Shown(heap, out)
                      = SubSeq(whole, 1, Min(chain[2].n, Len(whole)))

\* The output (as contents) and the elements left in the source when
\* transducer t is driven over the source.
Driven(t, source) ==
    LET r == TransduceWith(t, source)
    IN [out |-> Shown(r.heap, r.out), rest |-> r.rest]

\* C13: composition is associative: for stages A, B, C, driving
\* ((A then B) then C) and driving (A then (B then C)) give the same
\* output sequence and pull the same number of source elements as
\* driving the chain A then B then C.
C13_CompositionAssociative ==
    (N = 3 /\ pc = "done") =>
        LET A == Single(chain[1])
            B == Single(chain[2])
            C == Single(chain[3])
            flat == [out |-> Shown(heap, out), rest |-> src]
        IN /\ Driven(Compose(Compose(A, B), C), input) = flat
           /\ Driven(Compose(A, Compose(B, C)), input) = flat

\* Three stages whose order shows in the output have run, the last of
\* them ending the traversal before the source was exhausted.
C13_Witness ==
    /\ N = 3
    /\ chain[1].kind = "map"
    /\ chain[2].kind = "partitionAll"
    /\ chain[3] = Stage("take", 1, NoF)
    /\ pc = "done"
    /\ src # <<>>
    /\ Len(out) = 1
    /\ Driven(Compose(Compose(Single(chain[1]), Single(chain[2])),
                      Single(chain[3])), input).rest = src

\* The j-th configuration is a size or step that is not positive.
Degenerate(j) ==
    req[j].kind \in {"partitionAll", "takeNth"} /\ req[j].n <= 0

\* C14: partitionAll(n) and takeNth(n) with n <= 0 raise a configuration
\* error when the factory is called: the transducer is never made, and
\* at the error no stage instance has been built, nothing was stepped or
\* allocated and no element was pulled; with every n >= 1 the factories
\* never fail and no error is raised later, during the run.
C14_ConfigurationError ==
    /\ \A j \in DOMAIN req : Degenerate(j) => Len(chain) < j
    /\ thrown # NoError <=> pc = "thrown"
    /\ pc = "thrown" =>
           /\ Len(chain) < Len(req)
           /\ Degenerate(Len(chain) + 1)
           /\ thrown = (IF req[Len(chain) + 1].kind = "partitionAll"
                        THEN "Size in partitionAll() cannot be "
                        ELSE "Step in takeNth() cannot be ")
                       \o (IF req[Len(chain) + 1].n = 0 THEN "0" ELSE "negative")
           /\ inst = <<>>
           /\ heap = InitialHeap
           /\ log = <<>>
           /\ Pulled = 0
    /\ (\A j \in DOMAIN req : ~Degenerate(j)) =>
           /\ thrown = NoError
           /\ pc # "config" => chain = req
    /\ (pc = "config" /\ Len(chain) < Len(req)
            /\ ~Degenerate(Len(chain) + 1)) =>
           Factory(req[Len(chain) + 1]).error = NoError

\* The second factory call, takeNth(0), has thrown after the first
\* returned its transducer; no instance exists and the source is whole.
C14_Witness ==
    /\ pc = "thrown"
    /\ Len(req) = 2
    /\ Len(chain) = 1
    /\ req[2] = Stage("takeNth", 0, NoF)
    /\ thrown = "Step in takeNth() cannot be 0"
    /\ inst = <<>>
    /\ src = input
    /\ src # <<>>

\* A chain of partitionAll(2) and takeNth(2), made without an error,
\* has run to its end over a source.
C14_WitnessRun ==
    /\ pc = "done"
    /\ chain = <<Stage("partitionAll", 2, NoF), Stage("takeNth", 2, NoF)>>
    /\ Pulled = 2
    /\ thrown = NoError

\* C16: for every stage of the catalog, the wrapping ones (dedupe,
\* dropWhile, takeNth, partitionBy) included, driving it into the array
\* transformer with a caller-supplied initial accumulator v throws
\* nothing and folds the stage's output into v: the result is v followed
\* by what the stage puts out over the source.
C16_SeedFolded ==
    seed.given =>
        /\ thrown = NoError
        /\ pc = "done" =>
               /\ out # NoValue
               /\ Shown(heap, out)
                      = Shown(heap, seed.array) \o OutputOf(chain, input)

\* C16 holds of the stages that keep no state in the accumulator.
C16_SeedFoldedUnwrapped ==
    (seed.given /\ chain[1].kind \notin Wrapping) =>
        /\ thrown = NoError
        /\ pc = "done" =>
               Shown(heap, out)
                   = Shown(heap, seed.array) \o OutputOf(chain, input)

\* map over two elements or more has been folded into the initial
\* accumulator [1].
C16_SeedFoldedByMap ==
    /\ seed = Seeded(<<Num(1)>>)
    /\ chain[1].kind = "map"
    /\ pc = "done"
    /\ Len(input) >= 2
    /\ Len(out) = Len(input) + 1
    /\ out[1] = Num(1)

\* What the wrapping stages come to on a supplied accumulator: dedupe
\* and partitionBy throw a TypeError on the first element (partitionBy
\* at finish over an empty source), dropWhile on the first element that
\* fails the predicate, and takeNth passes nothing and returns undefined.
C16_WrappingOnSeed ==
    (seed.given /\ chain[1].kind \in Wrapping) =>
        /\ (chain[1].kind \in {"dedupe", "partitionBy"} /\ Pulled >= 1) =>
               thrown = "TypeError"
        /\ (chain[1].kind = "partitionBy" /\ pc \notin {"run", "finish"}) =>
               thrown = "TypeError"
        /\ (chain[1].kind = "dropWhile" /\ pc \notin {"run", "finish"}) =>
               (thrown = "TypeError"
                    <=> \E j \in DOMAIN input :
                            ~ApplyPred(chain[1].f, heap, input[j]))
        /\ (chain[1].kind = "takeNth" /\ pc \notin {"run", "finish"}) =>
               /\ out = NoValue
               /\ Count(log, "step", 2) = 0

\* C21: in interpose(s), when the step of the separator downstream
\* returns a signaled result, interpose's step returns it at once and
\* the element itself is not passed downstream: the event after a
\* signaled downstream return inside interpose's step is interpose's own
\* signaled return, and interpose(s) then take(n) outputs the first n of
\* x1, s, x2, s, ... (ending on a separator when n is even).
C21_SeparatorShortCircuit ==
    /\ \A k \in 1..N : \A p \in DOMAIN log :
           (chain[k].kind = "interpose" /\ Signaled(log, p, k + 1)
                /\ InStep(log, p, k)) =>
               /\ p < Len(log)
               /\ Signaled(log, p + 1, k)
    /\ (N = 2 /\ chain[1].kind = "interpose" /\ chain[2].kind = "take"
            /\ chain[2].n >= 1) =>
           LET all == Interposed(input, Num(chain[1].n))
               n == chain[2].n
           IN /\ Count(log, "step", 3) <= n
              /\ pc = "done" =>
                     /\ out = SubSeq(all, 1, Min(n, Len(all)))
                     /\ Len(all) >= n => Pulled = (n + 2) \div 2

\* interpose(0) then take(2) has finished over three elements: the
\* output ends on the separator and the second element, though pulled,
\* is not in it.
C21_Witness ==
    /\ chain = <<Stage("interpose", 0, NoF), Stage("take", 2, NoF)>>
    /\ pc = "done"
    /\ Len(input) = 3
    /\ out = <<input[1], Num(0)>>
    /\ src = <<input[3]>>
    /\ Count(log, "step", 2) = 2

\* C22: for every predicate p, on the first element that fails p,
\* takeWhile(p)'s step makes no call downstream and returns a signaled
\* result with the accumulator as it was; with the first failing element
\* at place b (counted from 1), exactly b elements are pulled, b steps
\* evaluate p (one evaluation a step), b - 1 elements go downstream and
\* the failing element is not in the output.
C22_TakeWhileFirstFailure ==
    (N = 1 /\ chain[1].kind = "takeWhile") =>
        LET b == Boundary(chain[1].f, input)
            passed == Min(Pulled, b - 1)
        IN /\ Pulled <= Min(b, Len(input))
           /\ Count(log, "step", 1) = Pulled
           /\ Count(log, "step", 2) = passed
           /\ acc.array = SubSeq(input, 1, passed)
           /\ \A p \in DOMAIN log :
                  Signaled(log, p, 1) =>
                      /\ IsNthRet(log, p, 1, b)
                      /\ Is(log[p - 1], "step", 1)
           /\ (Pulled = b) => \E p \in DOMAIN log : Signaled(log, p, 1)
           /\ (pc # "run" /\ b <= Len(input)) => Pulled = b
           /\ pc = "done" => out = SubSeq(input, 1, b - 1)

\* takeWhile has finished on a failing element that is neither the first
\* nor the last of the source.
C22_Witness ==
    /\ N = 1
    /\ chain[1].kind = "takeWhile"
    /\ pc = "done"
    /\ Boundary(chain[1].f, input) >= 2
    /\ Boundary(chain[1].f, input) < Len(input)
    /\ Pulled = Boundary(chain[1].f, input)
    /\ Len(out) = Pulled - 1

\* C24: the accumulator a stage (or the driver) passes to a downstream
\* step or a downstream finish is never a signal wrapper: a signaled
\* result is unwrapped or returned to the caller before any later call,
\* the second call inside interpose and the finish flush of the
\* partition stages included; nor is the driver's accumulator one.
C24_NoWrapperPassedDown ==
    /\ \A p \in DOMAIN log :
           log[p].op \in {"step", "result"} => ~log[p].red
    /\ ~isReduced(acc)
    /\ thrown = NoError

\* A partition stage over a take that signaled on a group has flushed
\* its leftover at finish, into the take again and unwrapped.
C24_Witness ==
    /\ N = 2
    /\ chain[1].kind \in {"partitionAll", "partitionBy"}
    /\ chain[2].kind = "take"
    /\ pc = "done"
    /\ \E p, q \in DOMAIN log :
           /\ p < q
           /\ Is(log[p], "result", 1)
           /\ Is(log[q], "step", 2)
           /\ ~log[q].red

\* The array the terminal transformer has collected so far, under the
\* state records of the wrapping stages.
RECURSIVE TerminalArray(_)
TerminalArray(a) ==
    IF "array" \in DOMAIN a THEN a.array
    ELSE IF "value" \in DOMAIN a THEN TerminalArray(a.value)
    ELSE <<>>

\* The ids of the arrays that the values vs refer to, directly or
\* through the arrays' elements.
RECURSIVE ArraysOf(_, _)
ArraysOf(h, vs) ==
    UNION {IF vs[j].ref
           THEN {vs[j].n} \cup ArraysOf(h, h[vs[j].n])
           ELSE {} : j \in DOMAIN vs}

\* The groups the downstream has received: those in the terminal's
\* accumulator and in the output returned.
ReceivedGroups == ArraysOf(heap, TerminalArray(acc) \o out)

\* C26: a group emitted by partitionAll or partitionBy is never modified
\* afterwards: the stage's pending buffer is never one of the arrays the
\* downstream has received (a fresh one replaces it at each flush; for
\* partitionBy the buffer is read from the accumulator the driver holds,
\* up to the call of finish), and no step of the traversal, the finish
\* included, changes the contents of a group already received.
C26_EmittedGroupsFrozen ==
    /\ [](N = 1 =>
              /\ chain[1].kind = "partitionAll" =>
                     inst[1].buffer \notin ReceivedGroups
              /\ (chain[1].kind = "partitionBy" /\ pc # "done") =>
                     acc.buffer \notin ReceivedGroups)
    /\ [][\A id \in ReceivedGroups : heap'[id] = heap[id]]_vars

\* A partition stage has emitted a group and has buffered a later
\* element since, in another array.
C26_Witness ==
    /\ N = 1
    /\ chain[1].kind \in {"partitionAll", "partitionBy"}
    /\ pc = "run"
    /\ Pulled >= 3
    /\ ReceivedGroups # {}
    /\ LET b == IF chain[1].kind = "partitionAll" THEN inst[1].buffer
                ELSE acc.buffer
       IN /\ b \notin ReceivedGroups
          /\ heap[b] # <<>>

\* C27: for every finite source and every chain of catalog stages
\* (flatMap's function returning finite sequences), the driving call
\* eventually reaches finish and returns: the pulls are never more than
\* the source's elements, each pulled element is stepped once at the
\* top, each step of a stage makes at most two steps downstream (the
\* two elements of flatMap's sequence, interpose's separator and
\* element) with one more at finish, every step of the call moves on in
\* the source or in the call, and the call comes to its end.
C27_Terminates ==
    /\ [](/\ Pulled <= Len(input)
          /\ Count(log, "step", 1) = Pulled
          /\ \A k \in 1..N :
                 Count(log, "step", k + 1) <= 2 * Count(log, "step", k) + 1)
    /\ [][<<pc, src>>' # <<pc, src>>]_vars
    /\ <>(pc = "done")

\* flatMap over interpose has returned after the source was exhausted,
\* with more steps made downstream than elements pulled.
C27_Witness ==
    /\ N = 2
    /\ chain[1].kind = "flatMap"
    /\ chain[2].kind = "interpose"
    /\ pc = "done"
    /\ src = <<>>
    /\ Pulled = Len(input)
    /\ Pulled >= 2
    /\ Count(log, "step", 3) > 2 * Pulled

\* The first place of xs whose element makes the raising callback raise,
\* or one past the end.
FirstRaising(xs) ==
    LET raising == {j \in DOMAIN xs : Raises(Raising, InitialHeap, xs[j])}
    IN IF raising = {} THEN Len(xs) + 1
       ELSE CHOOSE j \in raising : \A i \in raising : j <= i

Raised(lg) == {p \in DOMAIN lg : lg[p].op = "raise"}

\* C23: when a callback (predicate, mapping, key or sequence function)
\* raises, the error leaves the driving call: the call ends thrown with
\* no result returned, the raise is the one raise of the run and the last
\* event of it (the callback is not called again, no stage is stepped or
\* finished after it), and nothing happens after the call has thrown.
\* When it raises while the k-th element is being stepped, exactly k
\* elements have been pulled, each stepped once, the k-th step has not
\* returned, the rest of the source is as the pulls left it, and finish
\* was never called.  A single stage whose callback raises throws at the
\* first element the callback raises on and nowhere else.
C23_CallbackErrorPropagates ==
    /\ [](/\ (pc = "thrown") = (thrown = "Error")
          /\ (pc = "thrown") = (Raised(log) # {})
          /\ pc = "thrown" =>
                 /\ out = <<>>
                 /\ Raised(log) = {Len(log)}
                 /\ src = SubSeq(input, Pulled + 1, Len(input))
                 /\ Count(log, "step", 1) = Pulled
                 /\ (\A p \in DOMAIN log : log[p].op # "result") =>
                        /\ Pulled >= 1
                        /\ Count(log, "ret", 1) = Pulled - 1
          /\ (N = 1 /\ chain[1] \in RaisingStages) =>
                 /\ Pulled <= FirstRaising(input)
                 /\ (pc = "thrown") = (Pulled = FirstRaising(input))
                 /\ pc = "thrown" => \A p \in DOMAIN log : log[p].op # "result")
    /\ [][pc # "thrown"]_vars

\* A filter whose predicate raised on the second of three elements: the
\* first element is in the accumulator, the third is left in the source.
C23_Witness ==
    /\ N = 1
    /\ chain[1] = Stage("filter", 0, Raising)
    /\ pc = "thrown"
    /\ thrown = "Error"
    /\ Len(input) = 3
    /\ Pulled = 2
    /\ Len(src) = 1
    /\ acc.array = <<input[1]>>

\* What one traversal (its log, position, output and rest of source, in
\* heap h) has in common with the whole driving call `alone` of a fresh
\* instance over the same source: the same calls in the same order so
\* far, and once done the same output and the same elements left.
AsAlone(lg, p, o, rest, h, alone) ==
    /\ Len(lg) <= Len(alone.log)
    /\ lg = SubSeq(alone.log, 1, Len(lg))
    /\ p = "done" =>
           /\ lg = alone.log
           /\ Shown(h, o) = Shown(alone.heap, alone.out)
           /\ rest = alone.rest

\* The arrays an instance writes to: PartitionAll's buffer, and the
\* buffer of the state PartitionBy's init made.
BuffersOf(st, fields, result) ==
    IF st.kind = "partitionAll" THEN {fields[1].buffer}
    ELSE IF st.kind = "partitionBy" THEN {result.buffer}
    ELSE {}

\* C25: a transducer applied twice gives two instances that share no
\* mutable state: with the two driven over sources of their own, their
\* steps interleaved in any order, each traversal makes the calls, pulls
\* the elements and returns the output of a traversal run alone, and the
\* two never write to the same buffer.
C25_InstancesIndependent ==
    twin # NoTwin =>
        /\ AsAlone(log, pc, out, src, heap, Transduce(chain, input))
        /\ AsAlone(twin.log, twin.pc, twin.out, twin.src, heap,
                   Transduce(chain, twin.input))
        /\ (pc \in {"run", "finish"} /\ twin.pc \in {"run", "finish"}) =>
               BuffersOf(chain[1], inst, acc)
                   \cap BuffersOf(chain[1], twin.inst, twin.acc) = {}

\* Two instances of partitionAll(2) have each taken one element, the
\* first, then the second, then the first did the rest and returned.
C25_Witness ==
    /\ twin # NoTwin
    /\ chain[1] = Stage("partitionAll", 2, NoF)
    /\ Len(input) = 2
    /\ Len(twin.input) = 2
    /\ pc = "done"
    /\ twin.pc = "run"
    /\ Len(twin.src) = 1
    /\ Len(out) = 1
    /\ heap[twin.inst[1].buffer] = <<twin.input[1]>>

====
